---- MODULE Spec2Model ----
(***************************************************************************)
(* Model of the TaskSync backend (src/backend/server.py): registration,    *)
(* login, the bearer-token authentication gate and the owner-scoped task   *)
(* CRUD handlers, over a document store with atomic single-document        *)
(* operations.  Every database operation awaited by a handler is one step. *)
(***************************************************************************)
EXTENDS Integers, Sequences, FiniteSets, TLC

VARIABLES
    users,    \* db.users: sequence of user documents in insertion order
    tasks,    \* db.tasks: sequence of task documents in insertion order
    nextOid,  \* next ObjectId the store generates
    now,      \* wall clock, in ticks
    reqs,     \* per request slot: the handler in flight and its locals
    deleted,  \* history: <<task id, owner id>> of every task deleted so far
    resp      \* the response sent by the last step, NoResp if it sent none

vars == <<users, tasks, nextOid, now, reqs, deleted, resp>>

----------------------------------------------------------------------------
\* Bounds of the model

MaxUsers == 2
MaxTasks == 2
MaxRacers == 2
TicksPerSecond == 2

\* Program constants
JWT_ACCESS_TOKEN_EXPIRE_MINUTES == 30
DefaultExpireMinutes == 15
SecondsPerMinute == 60
ListCap == 1000

----------------------------------------------------------------------------
\* Optional values

None == <<>>
Some(x) == <<x>>
Val(o) == o[1]

\* Input domains
Emails == {"a@x.com", "b@x.com"}
Passwords == {<<"p">>, <<"q">>}

Rep(c, n) == [i \in 1..n |-> c]

\* Bodies of POST /auth/register (UserCreate)
UserCreates ==
    {[email |-> "a@x.com", password |-> <<"p">>, name |-> "Ann"],
     [email |-> "b@x.com", password |-> <<"q">>, name |-> "Bob"]}
Searches == {None, Some(<<>>), Some(<<"d", "o", "c">>), Some(<<"a">>), Some(<<".">>)}
Completeds == {None, Some(TRUE), Some(FALSE)}
SortBys == {"created_at", "updated_at", "due_date", "title", "priority"}
\* the order parameter: omitted, or given
Orders == {None, Some("desc"), Some("asc")}

\* A path identifier is a string; 0 stands for a string that is not a
\* 24-digit hexadecimal ObjectId ("invalid-task-id"), n >= 1 for the
\* hexadecimal string of the n-th generated ObjectId.
InvalidTaskId == 0
\* Path identifiers tried: the malformed one, every ObjectId handed out to
\* a task so far, and one never handed out
PathIds == {InvalidTaskId} \cup {n \in 1..nextOid : \A i \in 1..Len(users) : users[i]._id # n}

\* Instants the clock is observed at (ticks)
TtlTicks == JWT_ACCESS_TOKEN_EXPIRE_MINUTES * SecondsPerMinute * TicksPerSecond
ClockPoints == {0, TtlTicks + SecondsPerMinute * TicksPerSecond}

\* A finer set, around the expiry of tokens issued in the first second
FineClockPoints ==
    {0, 1, TicksPerSecond,
     TtlTicks - SecondsPerMinute * TicksPerSecond,
     TtlTicks - SecondsPerMinute * TicksPerSecond + 1,
     TtlTicks - TicksPerSecond, TtlTicks - TicksPerSecond + 1,
     TtlTicks - 1, TtlTicks, TtlTicks + 1, TtlTicks + TicksPerSecond,
     TtlTicks + SecondsPerMinute * TicksPerSecond,
     TtlTicks + SecondsPerMinute * TicksPerSecond + 1}

\* Bodies of POST /tasks (TaskCreate) and PUT /tasks/{id} (TaskUpdate).
\* description: Optional[str] = "" is a string, the empty one when the body
\* leaves it out, or null (None) when the body gives null.  Due dates are
\* written without a UTC offset.
TaskCreates ==
    {[title |-> <<"D", "o", "c">>, description |-> Some(<<>>), due_date |-> None],
     [title |-> <<"a">>, description |-> Some(<<"d", "o", "c">>),
      due_date |-> Some(TtlTicks)],
     [title |-> <<"D", "o", "c">>, description |-> None, due_date |-> None]}

NoUpdate == [title |-> None, description |-> None, due_date |-> None,
             completed |-> None]
TaskUpdates ==
    {NoUpdate,
     [NoUpdate EXCEPT !.completed = Some(TRUE)],
     [NoUpdate EXCEPT !.title = Some(<<"a">>)],
     [NoUpdate EXCEPT !.description = Some(<<"d", "o", "c">>),
                      !.due_date = Some(TtlTicks)]}

Slots == 1..MaxRacers

----------------------------------------------------------------------------
\* bson.ObjectId(s): raises InvalidId unless s has the ObjectId shape
ObjectIdValid(s) == s \in Nat /\ s # InvalidTaskId

\* Password hasher (bcrypt through passlib); the 72-byte guard
BcryptLimit == 72

ByteLen(c) == IF c \in {"p", "q", "a", "b"} THEN 1 ELSE 2

RECURSIVE Utf8Len(_)
Utf8Len(s) == IF s = <<>> THEN 0 ELSE ByteLen(Head(s)) + Utf8Len(Tail(s))

Prefix(s, n) == IF Len(s) <= n THEN s ELSE SubSeq(s, 1, n)

Truncate(password) ==
    IF Utf8Len(password) > BcryptLimit THEN Prefix(password, BcryptLimit)
    ELSE password

\* str.encode('utf-8'): the bytes of each character, in order; byte k of
\* character c is written <<c, k>>
RECURSIVE Utf8Encode(_)
Utf8Encode(s) ==
    IF s = <<>> THEN <<>>
    ELSE [k \in 1..ByteLen(Head(s)) |-> <<Head(s), k>>] \o Utf8Encode(Tail(s))

\* bcrypt keys the hash with the first 72 bytes of the secret.  Given more,
\* a build of the library either drops the rest or raises ValueError.
BcryptBuilds == {"truncating", "rejecting"}
BcryptKey(secret) == Prefix(Utf8Encode(secret), BcryptLimit)
BcryptRaises(secret, build) ==
    build = "rejecting" /\ Len(Utf8Encode(secret)) > BcryptLimit

pwd_context_hash(secret) == [scheme |-> "bcrypt", secret |-> BcryptKey(secret)]
pwd_context_verify(secret, hash) == hash.secret = BcryptKey(secret)

get_password_hash(password) == pwd_context_hash(Truncate(password))

verify_password(plain_password, hashed_password) ==
    pwd_context_verify(Truncate(plain_password), hashed_password)

\* whether pwd_context.hash / pwd_context.verify raises on this password
PasswordRaises(password, build) == BcryptRaises(Truncate(password), build)

----------------------------------------------------------------------------
\* Token issuer / verifier (PyJWT, HS256 with the process secret)

\* datetime -> NumericDate: whole seconds, fraction dropped
Timegm(t) == t \div TicksPerSecond

Timedelta(minutes) == minutes * SecondsPerMinute * TicksPerSecond

\* jwt.encode of {"sub": ..., "exp": datetime}
JwtEncode(sub, expire) ==
    [kind |-> "jwt", sub |-> sub, exp |-> Timegm(expire), sig |-> "good"]

create_access_token(sub, expires_delta, t) ==
    LET expire == IF expires_delta # 0 THEN t + expires_delta
                  ELSE t + Timedelta(DefaultExpireMinutes)
    IN  JwtEncode(sub, expire)

Garbage == [kind |-> "garbage", sub |-> None, exp |-> 0, sig |-> "bad"]
Tamper(tok) == [tok EXCEPT !.sig = "bad"]

JwtDecodeLate(tok, t) ==
    IF tok.kind # "jwt" THEN "DecodeError"
    ELSE IF tok.sig # "good" THEN "InvalidSignatureError"
    ELSE IF tok.exp * TicksPerSecond < t THEN "ExpiredSignatureError"
    ELSE "ok"

\* jwt.decode: "ok" with the payload, or the PyJWTError raised
JwtDecode(tok, t) ==
    IF tok.kind # "jwt" THEN "DecodeError"
    ELSE IF tok.sig # "good" THEN "InvalidSignatureError"
    ELSE IF tok.exp * TicksPerSecond <= t THEN "ExpiredSignatureError"
    ELSE "ok"

----------------------------------------------------------------------------
\* Store queries

\* find_one: the first matching document in natural order, or None
FindOne(matching) ==
    IF matching = <<>> THEN None ELSE Some(matching[1])

FindUserByEmailNever(email) == None

FindUserByEmail(email) == FindOne(SelectSeq(users, LAMBDA u : u.email = email))

FindUserByIdAny(oid) == FindOne(users)

FindUserById(oid) == FindOne(SelectSeq(users, LAMBDA u : u._id = oid))

UserView(u) == [id |-> u._id, email |-> u.email, name |-> u.name,
                created_at |-> u.created_at]

----------------------------------------------------------------------------
\* Requests and responses

Idle == [op |-> "idle", pc |-> "idle", user |-> None, task_id |-> 0,
         doc |-> None, sent |-> None]

NoResp == [op |-> "none", status |-> 0, detail |-> "", user |-> None,
           cred |-> None, task_id |-> 0, body |-> None, args |-> None]

Response(op, status, detail, user, cred, task_id, body, args) ==
    [op |-> op, status |-> status, detail |-> detail, user |-> user,
     cred |-> cred, task_id |-> task_id, body |-> body, args |-> args]

Init ==
    /\ users = <<>>
    /\ tasks = <<>>
    /\ nextOid = 1
    /\ now = 0
    /\ reqs = [s \in Slots |-> Idle]
    /\ deleted = {}
    /\ resp = NoResp

----------------------------------------------------------------------------
\* POST /auth/register

UserDoc(user, t) ==
    [email |-> user.email, name |-> user.name,
     hashed_password |-> get_password_hash(user.password), created_at |-> t]

\* the document as insert_one stores it
StoredUser(oid, user_doc) ==
    [_id |-> oid, email |-> user_doc.email, name |-> user_doc.name,
     hashed_password |-> user_doc.hashed_password,
     created_at |-> user_doc.created_at]

\* find_one on the email, then the hash and user_doc, stamped with the
\* clock as read before the insert; an exception of the hasher is not
\* handled and goes out as 500
RegisterCheckOf(s, creates) ==
    /\ reqs[s].op = "idle"
    /\ \E user \in creates, build \in BcryptBuilds :
         LET existing_user == FindUserByEmail(user.email)
             user_doc == UserDoc(user, now)
         IN  IF existing_user # None
             THEN /\ resp' = Response("register", 400, "Email already registered",
                                      None, None, 0, None, Some(user_doc))
                  /\ UNCHANGED reqs
             ELSE IF PasswordRaises(user.password, build)
             THEN /\ resp' = Response("register", 500, "Internal Server Error",
                                      None, None, 0, None, Some(user_doc))
                  /\ UNCHANGED reqs
             ELSE /\ Len(users) + Cardinality({r \in Slots : reqs[r].op = "register"})
                        < MaxUsers
                  /\ reqs' = [reqs EXCEPT ![s] =
                                [Idle EXCEPT !.op = "register", !.pc = "insert",
                                             !.doc = Some(user_doc)]]
                  /\ resp' = NoResp
    /\ UNCHANGED <<users, tasks, nextOid, now, deleted>>

RegisterCheck(s) == RegisterCheckOf(s, UserCreates)

\* the document is inserted, then the token is issued on a new reading
\* of the clock and the response built
RegisterInsert(s) ==
    /\ reqs[s].op = "register" /\ reqs[s].pc = "insert"
    /\ LET user_doc == Val(reqs[s].doc)
           stored == StoredUser(nextOid, user_doc)
           access_token == create_access_token(Some(nextOid),
                               Timedelta(JWT_ACCESS_TOKEN_EXPIRE_MINUTES), now)
       IN  /\ users' = Append(users, stored)
           /\ nextOid' = nextOid + 1
           /\ resp' = Response("register", 200, "", Some(nextOid), None, 0,
                               Some([access_token |-> access_token,
                                     token_type |-> "bearer",
                                     user |-> UserView(stored)]),
                               Some(user_doc))
    /\ reqs' = [reqs EXCEPT ![s] = Idle]
    /\ UNCHANGED <<tasks, now, deleted>>

\* POST /auth/login
LoginOf(s, emails, passwords) ==
    /\ reqs[s].op = "idle"
    /\ \E email \in emails, password \in passwords, build \in BcryptBuilds :
         LET user == FindUserByEmail(email)
             args == Some([email |-> email, password |-> password])
         IN  IF user # None /\ PasswordRaises(password, build)
             THEN resp' = Response("login", 500, "Internal Server Error",
                                  None, None, 0, None, args)
             ELSE IF user = None
                \/ ~verify_password(password, Val(user).hashed_password)
             THEN resp' = Response("login", 401, "Invalid email or password",
                                  None, None, 0, None, args)
             ELSE LET access_token ==
                        create_access_token(Some(Val(user)._id),
                            Timedelta(JWT_ACCESS_TOKEN_EXPIRE_MINUTES), now)
                  IN  resp' = Response("login", 200, "", Some(Val(user)._id),
                                     None, 0,
                                     Some([access_token |-> access_token,
                                           token_type |-> "bearer",
                                           user |-> UserView(Val(user))]),
                                     args)
    /\ UNCHANGED <<users, tasks, nextOid, now, reqs, deleted>>

\* the passwords tried at login: those the accounts are registered with
\* and one of 37 characters in 73 bytes
LoginPasswords == Passwords \cup {Rep("e", BcryptLimit \div 2) \o <<"a">>}

Login(s) == LoginOf(s, Emails, LoginPasswords)

----------------------------------------------------------------------------
\* Authentication gate: HTTPBearer, then get_current_user

\* Tokens are not stored.  The tokens register and login hand out for a
\* stored user are issued at an instant from the user's created_at, the
\* stamp read before the insert, up to now.
IssuedAt(user, t) ==
    create_access_token(Some(user._id),
                        Timedelta(JWT_ACCESS_TOKEN_EXPIRE_MINUTES), t)

Issuable(points) ==
    UNION {{IssuedAt(users[i], t) :
              t \in {c \in points : users[i].created_at <= c /\ c <= now}} :
           i \in 1..Len(users)}

\* What a client can put in the Authorization header: nothing, a string
\* that is no token, a token it was given, or such a token altered
Credentials(points) ==
    {None, Some(Garbage)} \cup {Some(t) : t \in Issuable(points)}
        \cup {Some(Tamper(t)) : t \in Issuable(points)}

GateOk(user) == [status |-> 200, detail |-> "", user |-> user]
GateFail(status, detail) == [status |-> status, detail |-> detail, user |-> None]

HTTPBearerUnauthorized(cred) ==
    IF cred = None THEN GateFail(401, "Not authenticated") ELSE GateOk(None)

\* security = HTTPBearer(): no bearer credential is refused before the
\* dependency body runs
HTTPBearer(cred) ==
    IF cred = None THEN GateFail(403, "Not authenticated") ELSE GateOk(None)

get_current_userTelling(tok, t) ==
    IF JwtDecode(tok, t) = "ExpiredSignatureError" THEN GateFail(401, "Token expired")
    ELSE IF JwtDecode(tok, t) # "ok" THEN GateFail(401, "Invalid token")
    ELSE IF tok.sub = None THEN GateFail(401, "Invalid token")
    ELSE LET user == FindUserById(Val(tok.sub))
         IN  IF user = None THEN GateFail(401, "User not found")
             ELSE GateOk(user)

get_current_user(tok, t) ==
    IF JwtDecode(tok, t) # "ok" THEN GateFail(401, "Invalid token")
    ELSE IF tok.sub = None THEN GateFail(401, "Invalid token")
    ELSE LET user == FindUserById(Val(tok.sub))
         IN  IF user = None THEN GateFail(401, "User not found")
             ELSE GateOk(user)

Gate(cred, t) ==
    IF HTTPBearer(cred).status # 200 THEN HTTPBearer(cred)
    ELSE get_current_user(Val(cred), t)

Authenticate(s, points) ==
    /\ reqs[s].op = "idle"
    /\ \E cred \in Credentials(points) :
         LET g == Gate(cred, now)
         IN  IF g.status # 200
             THEN /\ resp' = Response("protected", g.status, g.detail, None,
                                      cred, 0, None, None)
                  /\ UNCHANGED reqs
             ELSE /\ reqs' = [reqs EXCEPT ![s] =
                                [Idle EXCEPT !.op = "protected", !.pc = "handler",
                                             !.user = g.user,
                                             !.sent = cred]]
                  /\ resp' = NoResp
    /\ UNCHANGED <<users, tasks, nextOid, now, deleted>>

\* The dependency resolved, the endpoint's handler runs; which endpoint
\* was called is read when its handler starts
Running(s, op) == reqs[s].op = "protected" /\ reqs[s].pc = "handler"
CurrentUser(s) == Val(reqs[s].user)
Uid(s) == CurrentUser(s)._id

\* GET /auth/me
get_me(s) ==
    /\ Running(s, "get_me")
    /\ resp' = Response("get_me", 200, "", Some(Uid(s)), None, 0,
                        Some(UserView(CurrentUser(s))), None)
    /\ reqs' = [reqs EXCEPT ![s] = Idle]
    /\ UNCHANGED <<users, tasks, nextOid, now, deleted>>

----------------------------------------------------------------------------
\* Task routes

\* What a block of code ends with: a value returned or an exception raised
Returned(v) == [raised |-> "none", value |-> v]
Raised(e) == [raised |-> e, value |-> None]

\* The fields of the Task response model taken from a document
TaskView(d) ==
    [id |-> d._id, title |-> d.title, description |-> Val(d.description),
     due_date |-> d.due_date, completed |-> d.completed,
     created_at |-> d.created_at, updated_at |-> d.updated_at,
     user_id |-> d.user_id]

\* Task(...): description is declared str, so the model does not validate
\* on a document whose description is null
TaskModel(d) ==
    IF d.description = None THEN Raised("ValidationError")
    ELSE Returned(Some(TaskView(d)))

\* an exception no handler catches goes out as 500
Unhandled(outcome) ==
    IF outcome.raised = "none"
    THEN [status |-> 200, detail |-> "", body |-> outcome.value]
    ELSE [status |-> 500, detail |-> "Internal Server Error", body |-> None]

\* ObjectIds handed out to tasks so far (users are never deleted)
TasksCreated == nextOid - 1 - Len(users)

\* POST /tasks: task_doc as the handler builds it; created and updated
\* are the two readings of the clock
TaskDocOf(task, uid, created, updated) ==
    [title |-> task.title, description |-> task.description,
     due_date |-> task.due_date, completed |-> FALSE,
     created_at |-> created, updated_at |-> updated, user_id |-> uid]

\* the document as insert_one stores it
InsertedTask(oid, task_doc) == [_id |-> oid] @@ task_doc

TaskDoc(oid, task, uid, created, updated) ==
    InsertedTask(oid, TaskDocOf(task, uid, created, updated))

\* the instant observed next after now
NextInstant(points) ==
    {t \in points : t > now /\ \A c \in points : c > now => t <= c}

\* The handler builds task_doc and waits for insert_one.
\* datetime.utcnow() is called once for created_at and once more for
\* updated_at; the second reading is the first or a later instant
CreateTask(s, creates) ==
    /\ Running(s, "create_task")
    /\ TasksCreated + Cardinality({r \in Slots : reqs[r].op = "create_task"})
           < MaxTasks
    /\ \E task \in creates, updated \in {now} \cup NextInstant(ClockPoints) :
         /\ reqs' = [reqs EXCEPT
                       ![s].op = "create_task",
                       ![s].pc = "insert",
                       ![s].doc = Some(TaskDocOf(task, Uid(s), now, updated))]
         /\ now' = updated
    /\ resp' = NoResp
    /\ UNCHANGED <<users, tasks, nextOid, deleted>>

create_task(s) == CreateTask(s, TaskCreates)

\* the bodies that give a description, a text or null
DescribedCreates == {task \in TaskCreates : task.description # Some(<<>>)}

create_task_described(s) == CreateTask(s, DescribedCreates)

\* insert_one, then Task(**task_doc) with the new id; the task is stored
\* when the response model fails to validate
create_task_insert(s) ==
    /\ reqs[s].op = "create_task" /\ reqs[s].pc = "insert"
    /\ LET task_doc == InsertedTask(nextOid, Val(reqs[s].doc))
           r == Unhandled(TaskModel(task_doc))
       IN  /\ tasks' = Append(tasks, task_doc)
           /\ nextOid' = nextOid + 1
           /\ resp' = Response("create_task", r.status, r.detail, Some(Uid(s)),
                               None, 0, r.body, reqs[s].doc)
    /\ reqs' = [reqs EXCEPT ![s] = Idle]
    /\ UNCHANGED <<users, now, deleted>>

----------------------------------------------------------------------------
\* GET /tasks: filter, search, sort, cap

Lower(c) == IF c = "D" THEN "d" ELSE c

\* one pattern character against one text character, option "i";
\* "." matches any character
RegexCharMatch(p, c) == p = "." \/ Lower(p) = Lower(c)

\* {"$regex": pattern, "$options": "i"}: the pattern matches somewhere
RegexSearch(pattern, text) ==
    \E k \in 0..(Len(text) - Len(pattern)) :
        \A i \in 1..Len(pattern) : RegexCharMatch(pattern[i], text[k + i])

QueryMatchesAnyOwner(d, uid, completed, search) ==
    /\ completed # None => d.completed = Val(completed)
    /\ (search # None /\ Val(search) # <<>>) =>
          \/ RegexSearch(Val(search), d.title)
          \/ d.description # None /\ RegexSearch(Val(search), Val(d.description))

\* the query dict built from the parameters
QueryMatches(d, uid, completed, search) ==
    /\ d.user_id = uid
    /\ completed # None => d.completed = Val(completed)
    /\ (search # None /\ Val(search) # <<>>) =>
          \/ RegexSearch(Val(search), d.title)
          \/ d.description # None /\ RegexSearch(Val(search), Val(d.description))

\* order: Optional[str] = "desc"
OrderParam(order) == IF order = None THEN "desc" ELSE Val(order)

SortOrderReversed(order) == IF order = "desc" THEN 1 ELSE -1

SortOrder(order) == IF order = "desc" THEN -1 ELSE 1

SortField(sort_by) ==
    IF sort_by \in {"created_at", "updated_at", "due_date", "title"}
    THEN sort_by ELSE "created_at"

CharCode(c) ==
    CASE c = "." -> 46 [] c = "0" -> 48 [] c = "1" -> 49 [] c = "2" -> 50
      [] c = "3" -> 51 [] c = "4" -> 52 [] c = "5" -> 53 [] c = "6" -> 54
      [] c = "7" -> 55 [] c = "8" -> 56 [] c = "9" -> 57 [] c = "D" -> 68
      [] c = "a" -> 97 [] c = "c" -> 99 [] c = "d" -> 100 [] c = "o" -> 111
      [] OTHER -> 0

\* binary string comparison
RECURSIVE StrLess(_, _)
StrLess(a, b) ==
    IF b = <<>> THEN FALSE
    ELSE IF a = <<>> THEN TRUE
    ELSE IF CharCode(Head(a)) # CharCode(Head(b))
         THEN CharCode(Head(a)) < CharCode(Head(b))
    ELSE StrLess(Tail(a), Tail(b))

\* the store's ordering of two documents on a field; null sorts first
KeyLess(field, a, b) ==
    CASE field = "created_at" -> a.created_at < b.created_at
      [] field = "updated_at" -> a.updated_at < b.updated_at
      [] field = "title" -> StrLess(a.title, b.title)
      [] field = "due_date" ->
            IF b.due_date = None THEN FALSE
            ELSE IF a.due_date = None THEN TRUE
            ELSE Val(a.due_date) < Val(b.due_date)

Orderings(m) ==
    {[i \in 1..Len(m) |-> m[p[i]]] :
        p \in {q \in [1..Len(m) -> 1..Len(m)] :
                 \A i, j \in 1..Len(m) : q[i] = q[j] => i = j}}

\* a before b in a sort on the field in the direction
SortLess(field, dir, a, b) ==
    IF dir = 1 THEN KeyLess(field, a, b) ELSE KeyLess(field, b, a)

\* every sorted arrangement of the documents of m: the documents before
\* the middle one, those equal to it on the sort field in any order, those
\* after it
RECURSIVE Arrangements(_, _, _)
Arrangements(m, field, dir) ==
    IF m = <<>> THEN {<<>>}
    ELSE LET pivot == m[(Len(m) + 1) \div 2]
             low == SelectSeq(m, LAMBDA d : SortLess(field, dir, d, pivot))
             same == SelectSeq(m, LAMBDA d : /\ ~SortLess(field, dir, d, pivot)
                                             /\ ~SortLess(field, dir, pivot, d))
             high == SelectSeq(m, LAMBDA d : SortLess(field, dir, pivot, d))
         IN  {a \o e \o b : a \in Arrangements(low, field, dir),
                             e \in Orderings(same),
                             b \in Arrangements(high, field, dir)}

\* find(query).sort(field, dir).to_list(1000): the order of documents
\* equal on the sort field is the store's choice
FindSorted(uid, completed, search, sort_by, order) ==
    LET m == SelectSeq(tasks, LAMBDA d : QueryMatches(d, uid, completed, search))
    IN  {Prefix(r, ListCap) :
            r \in Arrangements(m, SortField(sort_by), SortOrder(order))}

TaskViews(r) == [i \in 1..Len(r) |-> TaskView(r[i])]

\* the list of Task(...) built from the documents found
TaskModels(r) ==
    IF \E i \in 1..Len(r) : TaskModel(r[i]).raised # "none"
    THEN Raised("ValidationError")
    ELSE Returned(TaskViews(r))

GetTasks(s, completeds, searches, sort_bys) ==
    /\ Running(s, "get_tasks")
    /\ \E completed \in completeds, search \in searches,
          sort_by \in sort_bys, order \in Orders :
         \E found \in FindSorted(Uid(s), completed, search, sort_by,
                                  OrderParam(order)) :
            LET r == Unhandled(TaskModels(found))
            IN
            resp' = Response("get_tasks", r.status, r.detail, Some(Uid(s)),
                             None, 0, r.body,
                             Some([completed |-> completed, search |-> search,
                                   sort_by |-> sort_by, order |-> order]))
    /\ reqs' = [reqs EXCEPT ![s] = Idle]
    /\ UNCHANGED <<users, tasks, nextOid, now, deleted>>

get_tasks(s) == GetTasks(s, Completeds, Searches, SortBys)

ExceptExceptionAsNotFound(outcome) ==
    IF outcome.raised = "none"
    THEN [status |-> 200, detail |-> "", body |-> outcome.value]
    ELSE [status |-> 404, detail |-> "Task not found", body |-> None]

\* except Exception: every exception raised in the try block, the
\* handler's own HTTPException included, becomes 400 "Invalid task ID"
ExceptException(outcome) ==
    IF outcome.raised = "none"
    THEN [status |-> 200, detail |-> "", body |-> outcome.value]
    ELSE [status |-> 400, detail |-> "Invalid task ID", body |-> None]

\* GET /tasks/{task_id}: the try block, Task(...) included
GetTaskTry(task_id, uid) ==
    IF ~ObjectIdValid(task_id) THEN Raised("InvalidId")
    ELSE LET task == FindOne(SelectSeq(tasks, LAMBDA d : d._id = task_id /\ d.user_id = uid))
         IN  IF task = None THEN Raised("HTTPException404")
             ELSE TaskModel(Val(task))

get_task(s) ==
    /\ Running(s, "get_task")
    /\ \E task_id \in PathIds :
         LET r == ExceptException(GetTaskTry(task_id, Uid(s)))
         IN  resp' = Response("get_task", r.status, r.detail, Some(Uid(s)),
                              None, task_id, r.body, None)
    /\ reqs' = [reqs EXCEPT ![s] = Idle]
    /\ UNCHANGED <<users, tasks, nextOid, now, deleted>>

\* PUT /tasks/{task_id}: the update dict
UpdateData(task_update, t) ==
    [title |-> task_update.title, description |-> task_update.description,
     due_date |-> task_update.due_date, completed |-> task_update.completed,
     updated_at |-> Some(t)]

ApplySetNoStamp(d, u) ==
    [d EXCEPT !.title = IF u.title # None THEN Val(u.title) ELSE @,
              !.description = IF u.description # None THEN u.description ELSE @,
              !.due_date = IF u.due_date # None THEN u.due_date ELSE @,
              !.completed = IF u.completed # None THEN Val(u.completed) ELSE @]

\* $set of the update dict on one document
ApplySet(d, u) ==
    [d EXCEPT !.title = IF u.title # None THEN Val(u.title) ELSE @,
              !.description = IF u.description # None THEN u.description ELSE @,
              !.due_date = IF u.due_date # None THEN u.due_date ELSE @,
              !.completed = IF u.completed # None THEN Val(u.completed) ELSE @,
              !.updated_at = IF u.updated_at # None THEN Val(u.updated_at) ELSE @]

OwnedByIdOnly(d, task_id, uid) == d._id = task_id

\* the filter of update_one / delete_one
OwnedBy(d, task_id, uid) == d._id = task_id /\ d.user_id = uid

MatchedCount(task_id, uid) ==
    IF FindOne(SelectSeq(tasks, LAMBDA d : OwnedBy(d, task_id, uid))) = None THEN 0 ELSE 1

UpdateOne(task_id, uid, u) ==
    [i \in 1..Len(tasks) |->
        IF OwnedBy(tasks[i], task_id, uid) THEN ApplySet(tasks[i], u)
        ELSE tasks[i]]

\* The handler builds the update dict, stamped with the clock, and the
\* filter, where a malformed id raises; then it waits for update_one
UpdateTask(s, bodies) ==
    /\ Running(s, "update_task")
    /\ \E task_id \in PathIds, task_update \in bodies :
         LET update_data == UpdateData(task_update, now)
             r == ExceptException(Raised("InvalidId"))
         IN  IF ~ObjectIdValid(task_id)
             THEN /\ resp' = Response("update_task", r.status, r.detail,
                                      Some(Uid(s)), None, task_id,
                                      None, None)
                  /\ reqs' = [reqs EXCEPT ![s] = Idle]
             ELSE /\ reqs' = [reqs EXCEPT ![s].op = "update_task",
                                          ![s].pc = "write",
                                          ![s].task_id = task_id,
                                          ![s].doc = Some(update_data)]
                  /\ resp' = NoResp
    /\ UNCHANGED <<users, tasks, nextOid, now, deleted>>

\* update_one; on a match the handler goes on to read the task back
update_task_write(s) ==
    /\ reqs[s].op = "update_task" /\ reqs[s].pc = "write"
    /\ LET r == ExceptException(Raised("HTTPException404"))
       IN  IF MatchedCount(reqs[s].task_id, Uid(s)) = 0
           THEN /\ resp' = Response("update_task", r.status, r.detail,
                                    Some(Uid(s)), None, reqs[s].task_id,
                                    None, None)
                /\ reqs' = [reqs EXCEPT ![s] = Idle]
                /\ UNCHANGED tasks
           ELSE /\ tasks' = UpdateOne(reqs[s].task_id, Uid(s), Val(reqs[s].doc))
                /\ reqs' = [reqs EXCEPT ![s].pc = "reread"]
                /\ resp' = NoResp
    /\ UNCHANGED <<users, nextOid, now, deleted>>

update_task(s) == UpdateTask(s, TaskUpdates)

\* PUT /tasks/{task_id} with a body that sets the completion only
update_task_completion(s) ==
    UpdateTask(s, {[NoUpdate EXCEPT !.completed = Some(c)] : c \in BOOLEAN})

\* find_one by _id alone after the update; a missing document makes the
\* subscript of None raise TypeError inside the try block, a null
\* description makes Task(...) raise there
UpdateReadTry(task_id) ==
    LET updated_task == FindOne(SelectSeq(tasks, LAMBDA d : d._id = task_id))
    IN  IF updated_task = None THEN Raised("TypeError")
        ELSE TaskModel(Val(updated_task))

update_task_read(s) ==
    /\ reqs[s].op = "update_task" /\ reqs[s].pc = "reread"
    /\ LET r == ExceptException(UpdateReadTry(reqs[s].task_id))
       IN  resp' = Response("update_task", r.status, r.detail, Some(Uid(s)),
                            None, reqs[s].task_id, r.body, reqs[s].doc)
    /\ reqs' = [reqs EXCEPT ![s] = Idle]
    /\ UNCHANGED <<users, tasks, nextOid, now, deleted>>

\* DELETE /tasks/{task_id}
DeleteOne(task_id, uid) ==
    SelectSeq(tasks, LAMBDA d : ~OwnedBy(d, task_id, uid))

DeleteTaskTry(task_id, uid) ==
    IF ~ObjectIdValid(task_id) THEN Raised("InvalidId")
    ELSE IF MatchedCount(task_id, uid) = 0 THEN Raised("HTTPException404")
    ELSE Returned(None)

delete_task(s) ==
    /\ Running(s, "delete_task")
    /\ \E task_id \in PathIds :
         LET r == ExceptException(DeleteTaskTry(task_id, Uid(s)))
         IN  /\ resp' = Response("delete_task", r.status,
                                 IF r.status = 200
                                 THEN "Task deleted successfully" ELSE r.detail,
                                 Some(Uid(s)), None, task_id, None, None)
             /\ tasks' = IF ObjectIdValid(task_id)
                         THEN DeleteOne(task_id, Uid(s)) ELSE tasks
             /\ deleted' = IF r.status = 200
                           THEN deleted \cup {<<task_id, Uid(s)>>} ELSE deleted
    /\ reqs' = [reqs EXCEPT ![s] = Idle]
    /\ UNCHANGED <<users, nextOid, now>>

\* GET /tasks/stats/summary: four count queries, one after the other

HoursPerDay == 24
MinutesPerHour == 60
DayTicks == HoursPerDay * MinutesPerHour * SecondsPerMinute * TicksPerSecond

\* datetime.now() is the wall clock of the server's zone; the zones tried
\* are UTC-12, UTC and UTC+12
UtcOffsets == {-(DayTicks \div 2), 0, DayTicks \div 2}
LocalNow(offset) == now + offset

\* .replace(hour=0, minute=0, second=0, microsecond=0)
StartOfDay(t) == (t \div DayTicks) * DayTicks

\* {"$gte": gte, "$lt": lt} on due_date; a missing bound is None, and a
\* document without a due date is in no range
DueInRange(due, gte, lt) ==
    \/ gte = None /\ lt = None
    \/ /\ due # None
       /\ gte # None => Val(due) >= Val(gte)
       /\ lt # None => Val(due) < Val(lt)

CountDocumentsAnyOwner(uid, completed, gte, lt) ==
    Cardinality({i \in 1..Len(tasks) :
        /\ completed # None => tasks[i].completed = Val(completed)
        /\ DueInRange(tasks[i].due_date, gte, lt)})

\* count_documents of a filter on user_id, completed and due_date
CountDocuments(uid, completed, gte, lt) ==
    Cardinality({i \in 1..Len(tasks) :
        /\ tasks[i].user_id = uid
        /\ completed # None => tasks[i].completed = Val(completed)
        /\ DueInRange(tasks[i].due_date, gte, lt)})

\* the handler's locals; own_at_completed is not one of them: it records
\* how many tasks the user had when the second count ran
StatsLocals ==
    [total_tasks |-> 0, completed_tasks |-> 0, pending_tasks |-> 0,
     local_now |-> 0, today_start |-> 0, today_end |-> 0, due_today |-> 0,
     own_at_completed |-> 0]

AtStats(s, pc) == reqs[s].op = "get_task_stats" /\ reqs[s].pc = pc

stats_total(s) ==
    /\ Running(s, "get_task_stats")
    /\ reqs' = [reqs EXCEPT
                  ![s].op = "get_task_stats",
                  ![s].pc = "completed",
                  ![s].doc = Some([StatsLocals EXCEPT !.total_tasks =
                                CountDocuments(Uid(s), None, None, None)])]
    /\ resp' = NoResp
    /\ UNCHANGED <<users, tasks, nextOid, now, deleted>>

stats_completedLessTotal(s) ==
    /\ AtStats(s, "completed")
    /\ \E offset \in UtcOffsets :
         LET l == Val(reqs[s].doc)
             completed_tasks == CountDocuments(Uid(s), Some(TRUE), None, None)
             today_start == StartOfDay(LocalNow(offset))
         IN  reqs' = [reqs EXCEPT
                        ![s].pc = "due_today",
                        ![s].doc = Some([l EXCEPT
                            !.completed_tasks = completed_tasks,
                            !.pending_tasks = completed_tasks - l.total_tasks,
                            !.local_now = LocalNow(offset),
                            !.today_start = today_start,
                            !.today_end = today_start + DayTicks,
                            !.own_at_completed = Len(SelectSeq(tasks,
                                LAMBDA t : t.user_id = Uid(s)))])]
    /\ resp' = NoResp
    /\ UNCHANGED <<users, tasks, nextOid, now, deleted>>

\* the second count, then pending and the bounds of today
stats_completed(s) ==
    /\ AtStats(s, "completed")
    /\ \E offset \in UtcOffsets :
         LET l == Val(reqs[s].doc)
             completed_tasks == CountDocuments(Uid(s), Some(TRUE), None, None)
             today_start == StartOfDay(LocalNow(offset))
         IN  reqs' = [reqs EXCEPT
                        ![s].pc = "due_today",
                        ![s].doc = Some([l EXCEPT
                            !.completed_tasks = completed_tasks,
                            !.pending_tasks = l.total_tasks - completed_tasks,
                            !.local_now = LocalNow(offset),
                            !.today_start = today_start,
                            !.today_end = today_start + DayTicks,
                            !.own_at_completed = Len(SelectSeq(tasks,
                                LAMBDA t : t.user_id = Uid(s)))])]
    /\ resp' = NoResp
    /\ UNCHANGED <<users, tasks, nextOid, now, deleted>>

stats_due_today(s) ==
    /\ AtStats(s, "due_today")
    /\ LET l == Val(reqs[s].doc)
       IN  reqs' = [reqs EXCEPT
                      ![s].pc = "overdue",
                      ![s].doc = Some([l EXCEPT !.due_today =
                          CountDocuments(Uid(s), Some(FALSE),
                                         Some(l.today_start), Some(l.today_end))])]
    /\ resp' = NoResp
    /\ UNCHANGED <<users, tasks, nextOid, now, deleted>>

stats_overdue(s) ==
    /\ AtStats(s, "overdue")
    /\ LET l == Val(reqs[s].doc)
           overdue == CountDocuments(Uid(s), Some(FALSE), None, Some(l.today_start))
       IN  resp' = Response("get_task_stats", 200, "", Some(Uid(s)), None, 0,
                            Some([total_tasks |-> l.total_tasks,
                                  completed_tasks |-> l.completed_tasks,
                                  pending_tasks |-> l.pending_tasks,
                                  due_today |-> l.due_today,
                                  overdue |-> overdue]),
                            Some(l))
    /\ reqs' = [reqs EXCEPT ![s] = Idle]
    /\ UNCHANGED <<users, tasks, nextOid, now, deleted>>

\* Time passes, up to the next instant observed
Tick(points) ==
    /\ \E t \in points :
         /\ t > now
         /\ \A c \in points : c > now => t <= c
         /\ now' = t
    /\ resp' = NoResp
    /\ UNCHANGED <<users, tasks, nextOid, reqs, deleted>>

\* One client at a time: every request is answered before the next is sent.
\* Tasks are created with a description given, a text or null, and updated
\* in their completion flag
Next ==
    \/ RegisterCheck(1)
    \/ RegisterInsert(1)
    \/ Login(1)
    \/ Authenticate(1, ClockPoints)
    \/ get_me(1)
    \/ create_task_described(1)
    \/ create_task_insert(1)
    \/ get_task(1)
    \/ update_task_completion(1)
    \/ update_task_write(1)
    \/ update_task_read(1)
    \/ delete_task(1)
    \/ Tick(ClockPoints)

Spec == Init /\ [][Next]_vars

----------------------------------------------------------------------------
\* The list endpoint over stores the handlers build: two registered users
\* and up to MaxListed tasks of theirs, created one after the other, some
\* of them completed by a later update

MaxListed == 2

LastInstant == TtlTicks + SecondsPerMinute * TicksPerSecond

ListUsers ==
    <<StoredUser(1, UserDoc([email |-> "a@x.com", password |-> <<"p">>,
                             name |-> "Ann"], 0)),
      StoredUser(2, UserDoc([email |-> "b@x.com", password |-> <<"q">>,
                             name |-> "Bob"], 0))>>

ListedTask(k, task, uid, done) ==
    LET d == TaskDoc(2 + k, task, uid, k - 1, k - 1)
    IN  IF done
        THEN ApplySet(d, UpdateData([NoUpdate EXCEPT !.completed = Some(TRUE)],
                                    LastInstant))
        ELSE d

ListStores ==
    UNION {{[k \in 1..n |-> ListedTask(k, c[k][1], c[k][2], c[k][3])] :
              c \in [1..n -> TaskCreates \X {1, 2} \X BOOLEAN]} :
           n \in 0..MaxListed}

InitList ==
    /\ users = ListUsers
    /\ tasks \in ListStores
    /\ nextOid = 3 + Len(tasks)
    /\ now = LastInstant
    /\ reqs = [s \in Slots |-> Idle]
    /\ deleted = {}
    /\ resp = NoResp

NextList ==
    \/ Authenticate(1, ClockPoints)
    \/ get_tasks(1)

SpecList == InitList /\ [][NextList]_vars

----------------------------------------------------------------------------
\* Update Task with every combination of supplied fields, over stores of
\* up to MaxListed tasks of the two users, created one after the other

TitleUpdates == {None, Some(<<"a">>)}
DescriptionUpdates == {None, Some(<<>>), Some(<<"d", "o", "c">>)}
DueDateUpdates == {None, Some(TtlTicks)}
CompletedUpdates == {None, Some(TRUE), Some(FALSE)}

AllTaskUpdates ==
    [title : TitleUpdates, description : DescriptionUpdates,
     due_date : DueDateUpdates, completed : CompletedUpdates]

UpdateStores ==
    UNION {{[k \in 1..n |-> ListedTask(k, c[k][1], c[k][2], FALSE)] :
              c \in [1..n -> TaskCreates \X {1, 2}]} :
           n \in 0..MaxListed}

InitUpdate ==
    /\ users = ListUsers
    /\ tasks \in UpdateStores
    /\ nextOid = 3 + Len(tasks)
    /\ now = LastInstant
    /\ reqs = [s \in Slots |-> Idle]
    /\ deleted = {}
    /\ resp = NoResp

update_task_any(s) == UpdateTask(s, AllTaskUpdates)

NextUpdate ==
    \/ Authenticate(1, ClockPoints)
    \/ update_task_any(1)
    \/ update_task_write(1)
    \/ update_task_read(1)

SpecUpdate == InitUpdate /\ [][NextUpdate]_vars

----------------------------------------------------------------------------
\* Concurrent requests on one task: every slot runs its own request, and
\* the steps of the requests interleave at their awaits

InitUpdateRace ==
    /\ users = ListUsers
    /\ \E task \in TaskCreates : tasks = <<ListedTask(1, task, 1, FALSE)>>
    /\ nextOid = 4
    /\ now = LastInstant
    /\ reqs = [s \in Slots |-> Idle]
    /\ deleted = {}
    /\ resp = NoResp

NextUpdateRace ==
    \/ \E s \in Slots : Authenticate(s, ClockPoints)
    \/ \E s \in Slots : update_task(s)
    \/ \E s \in Slots : update_task_write(s)
    \/ \E s \in Slots : update_task_read(s)
    \/ \E s \in Slots : delete_task(s)

SpecUpdateRace == InitUpdateRace /\ [][NextUpdateRace]_vars

----------------------------------------------------------------------------
\* The list endpoint without filters over one user's tasks: few, as many
\* as the cap of to_list, or one more.  The many are created one per
\* instant, each titled with its number and due at its own instant, so no
\* sort has ties among them

Digits == <<"0", "1", "2", "3", "4", "5", "6", "7", "8", "9">>

\* the decimal numeral of k in four digits
Numeral(k) ==
    <<Digits[((k \div 1000) % 10) + 1], Digits[((k \div 100) % 10) + 1],
      Digits[((k \div 10) % 10) + 1], Digits[(k % 10) + 1]>>

CapTask(k) ==
    ListedTask(k, [title |-> Numeral(k), description |-> Some(<<>>),
                   due_date |-> Some(k)], 1, FALSE)

CapStores ==
    {[k \in 1..n |-> ListedTask(k, task, 1, FALSE)] :
        n \in 0..MaxListed, task \in TaskCreates}
    \cup {[k \in 1..n |-> CapTask(k)] : n \in {ListCap, ListCap + 1}}

InitCap ==
    /\ users = ListUsers
    /\ tasks \in CapStores
    /\ nextOid = 3 + Len(tasks)
    /\ now = LastInstant
    /\ reqs = [s \in Slots |-> Idle]
    /\ deleted = {}
    /\ resp = NoResp

get_tasks_unfiltered(s) == GetTasks(s, {None}, {None}, SortBys)

NextCap ==
    \/ Authenticate(1, ClockPoints)
    \/ get_tasks_unfiltered(1)

SpecCap == InitCap /\ [][NextCap]_vars

----------------------------------------------------------------------------
\* Tasks created and updated by two registered users, and listed by
\* completion

InitFilter ==
    /\ users = ListUsers
    /\ tasks = <<>>
    /\ nextOid = 3
    /\ now = 0
    /\ reqs = [s \in Slots |-> Idle]
    /\ deleted = {}
    /\ resp = NoResp

get_tasks_by_completed(s) == GetTasks(s, Completeds, {None}, {"created_at"})

NextFilter ==
    \/ Authenticate(1, ClockPoints)
    \/ create_task(1)
    \/ create_task_insert(1)
    \/ update_task(1)
    \/ update_task_write(1)
    \/ update_task_read(1)
    \/ get_tasks_by_completed(1)

SpecFilter == InitFilter /\ [][NextFilter]_vars

----------------------------------------------------------------------------
\* Statistics over stores of up to MaxListed tasks of the two users, due
\* around the midnights of the days the request can fall on, some completed

StatsInstant == DayTicks + 3 * (DayTicks \div 4)

\* The due dates the clients write, as readings of a wall clock
StatsDueDates ==
    {None} \cup {Some(d * DayTicks + e) : d \in {1, 2, 3}, e \in {-1, 0}}

\* How a user's client writes a due date: Ann's writes the reading alone,
\* Bob's adds the UTC offset of its zone, +12:00
ClientUtcOffset(uid) == IF uid = 1 THEN None ELSE Some(DayTicks \div 2)

\* A datetime of a request body as the store holds it: BSON datetimes
\* are UTC, so a reading with a UTC offset is converted to UTC and a
\* reading without one is taken to be UTC already
BsonDatetime(wall, utcoffset) ==
    IF utcoffset = None THEN wall ELSE wall - Val(utcoffset)

StatsTask(k, due, uid, done) ==
    ListedTask(k, [title |-> <<"a">>, description |-> Some(<<>>),
                   due_date |-> IF due = None THEN None
                                ELSE Some(BsonDatetime(Val(due),
                                                       ClientUtcOffset(uid)))],
               uid, done)

StatsStores ==
    UNION {{[k \in 1..n |-> StatsTask(k, c[k][1], c[k][2], c[k][3])] :
              c \in [1..n -> StatsDueDates \X {1, 2} \X BOOLEAN]} :
           n \in 0..MaxListed}

InitStats ==
    /\ users = ListUsers
    /\ tasks \in StatsStores
    /\ nextOid = 3 + Len(tasks)
    /\ now = StatsInstant
    /\ reqs = [s \in Slots |-> Idle]
    /\ deleted = {}
    /\ resp = NoResp

NextStats ==
    \/ Authenticate(1, {StatsInstant})
    \/ stats_total(1)
    \/ stats_completed(1)
    \/ stats_due_today(1)
    \/ stats_overdue(1)

SpecStats == InitStats /\ [][NextStats]_vars

----------------------------------------------------------------------------
\* Statistics in one request while another request creates, updates and
\* deletes tasks: each count is one step, and the other request's steps
\* fall between them

InitStatsRace ==
    /\ users = ListUsers
    /\ \/ tasks = <<>>
       \/ \E task \in TaskCreates : tasks = <<ListedTask(1, task, 1, FALSE)>>
    /\ nextOid = 3 + Len(tasks)
    /\ now = LastInstant
    /\ reqs = [s \in Slots |-> Idle]
    /\ deleted = {}
    /\ resp = NoResp

NextStatsRace ==
    \/ \E s \in Slots : Authenticate(s, {LastInstant})
    \/ stats_total(1)
    \/ stats_completed(1)
    \/ stats_due_today(1)
    \/ stats_overdue(1)
    \/ create_task(2)
    \/ create_task_insert(2)
    \/ update_task_completion(2)
    \/ update_task_write(2)
    \/ update_task_read(2)
    \/ delete_task(2)

SpecStatsRace == InitStatsRace /\ [][NextStatsRace]_vars

----------------------------------------------------------------------------
\* Register and login with passwords around the 72-byte limit, of
\* one-byte characters and of two-byte characters ("e" stands for one)

\* one account per password
PasswordCreates ==
    {[email |-> "p1", password |-> <<"p">>, name |-> "Ann"],
     [email |-> "p72", password |-> Rep("p", BcryptLimit), name |-> "Ann"],
     [email |-> "p72a", password |-> Rep("p", BcryptLimit) \o <<"a">>,
      name |-> "Ann"],
     [email |-> "e36", password |-> Rep("e", BcryptLimit \div 2), name |-> "Ann"],
     [email |-> "e36a", password |-> Rep("e", BcryptLimit \div 2) \o <<"a">>,
      name |-> "Ann"],
     [email |-> "e73", password |-> Rep("e", BcryptLimit + 1), name |-> "Ann"]}

LongPasswords ==
    {u.password : u \in PasswordCreates}
        \cup {Rep("p", BcryptLimit) \o <<"b">>,
              Rep("e", BcryptLimit \div 2) \o <<"b">>,
              Rep("e", BcryptLimit) \o <<"a">>}

register_long(s) == RegisterCheckOf(s, PasswordCreates)
login_long(s) == LoginOf(s, {u.email : u \in PasswordCreates}, LongPasswords)

NextPassword ==
    \/ register_long(1)
    \/ RegisterInsert(1)
    \/ login_long(1)

SpecPassword == Init /\ [][NextPassword]_vars

----------------------------------------------------------------------------
\* Concurrent registrations: every slot runs its own request

NextRace ==
    \/ \E s \in Slots : RegisterCheck(s)
    \/ \E s \in Slots : RegisterInsert(s)
    \/ Login(1)
    \/ Tick(ClockPoints)

SpecRace == Init /\ [][NextRace]_vars

----------------------------------------------------------------------------
\* Token lifetime: register, login and the gate on a fine clock

NextToken ==
    \/ RegisterCheck(1)
    \/ RegisterInsert(1)
    \/ Login(1)
    \/ Authenticate(1, FineClockPoints)
    \/ get_me(1)
    \/ Tick(FineClockPoints)

\* the process starts at any instant, not only on a whole second
InitToken ==
    /\ users = <<>>
    /\ tasks = <<>>
    /\ nextOid = 1
    /\ now \in {0, 1}
    /\ reqs = [s \in Slots |-> Idle]
    /\ deleted = {}
    /\ resp = NoResp

SpecToken == InitToken /\ [][NextToken]_vars

----------------------------------------------------------------------------
\* The token issuer alone: any user id, any lifetime from zero up, at
\* instants on and off the whole second

IssueSubs == 1..3

IssueDeltas ==
    {0, 1, TicksPerSecond, Timedelta(DefaultExpireMinutes),
     Timedelta(JWT_ACCESS_TOKEN_EXPIRE_MINUTES)}

IssueInstants == 0..(4 * TicksPerSecond)

InitIssue ==
    /\ users = <<>>
    /\ tasks = <<>>
    /\ nextOid = 1
    /\ now \in IssueInstants
    /\ reqs = [s \in Slots |-> Idle]
    /\ deleted = {}
    /\ resp = NoResp

\* create_access_token(data={"sub": user_id}, expires_delta=...)
IssueToken ==
    /\ \E sub \in IssueSubs, expires_delta \in IssueDeltas :
         resp' = Response("create_access_token", 200, "", Some(sub), None, 0,
                          Some(create_access_token(Some(sub), expires_delta, now)),
                          Some([expires_delta |-> expires_delta, issued |-> now]))
    /\ UNCHANGED <<users, tasks, nextOid, now, reqs, deleted>>

NextIssue ==
    \/ IssueToken
    \/ Tick(IssueInstants)

SpecIssue == InitIssue /\ [][NextIssue]_vars

----------------------------------------------------------------------------
\* Properties

\* the step is the gate of slot s deciding on a credential
GateRan(s) ==
    reqs[s].op = "idle" /\ (resp'.op = "protected" \/ reqs'[s].op = "protected")
Presented(s) == IF resp'.op = "protected" THEN resp'.cred ELSE reqs'[s].sent
Accepted(s) == reqs'[s].op = "protected"
RejectedInvalid == resp'.status = 401 /\ resp'.detail = "Invalid token"

\* the step is a handler of slot s answering a request on a path identifier
Answers(s, ops) ==
    reqs[s].user # None /\ reqs'[s] = Idle /\ resp'.op \in ops

\* the step is the update_one of slot s
UpdateWrites(s) == reqs[s].op = "update_task" /\ reqs[s].pc = "write"

TaskKept(d) == \E j \in 1..Len(tasks') : tasks'[j] = d

\* C1: GET /tasks/{id} by a user other than the task's owner returns no
\* task and answers 404
C1_CrossUserGetIs404 ==
    \A i \in 1..Len(tasks) :
        (/\ resp.op = "get_task"
         /\ resp.task_id = tasks[i]._id
         /\ resp.user # Some(tasks[i].user_id))
        => (resp.status = 404 /\ resp.body = None)

\* C2: a stored task changes or disappears only in an update or delete
\* step of a request authenticated as its owner; an update or delete by
\* another user on its identifier leaves it as it was
C2_OnlyOwnerMutates ==
    [][\A i \in 1..Len(tasks) :
          LET d == tasks[i]
          IN  /\ ~TaskKept(d) =>
                    \E s \in Slots :
                        /\ reqs[s].user # None
                        /\ Uid(s) = d.user_id
                        /\ \/ /\ UpdateWrites(s)
                              /\ reqs'[s].pc = "reread"
                              /\ reqs[s].task_id = d._id
                           \/ /\ Running(s, "delete_task")
                              /\ resp'.op = "delete_task"
                              /\ resp'.status = 200
                              /\ resp'.task_id = d._id
              /\ \A s \in Slots :
                    (/\ Answers(s, {"update_task", "delete_task"})
                     /\ resp'.task_id = d._id
                     /\ Uid(s) # d.user_id)
                    => TaskKept(d)]_vars

C2_Witness ==
    /\ resp.op \in {"update_task", "delete_task"}
    /\ \E i \in 1..Len(tasks) :
          tasks[i]._id = resp.task_id /\ resp.user # Some(tasks[i].user_id)

\* C3: whatever the completed, search, sort_by and order parameters, every
\* record List Tasks returns is owned by the authenticated user, and no
\* task of another user is in the result
C3_ListScopedToUser ==
    resp.op = "get_tasks" =>
        /\ \A k \in 1..Len(resp.body) : resp.body[k].user_id = Val(resp.user)
        /\ \A i \in 1..Len(tasks) :
              tasks[i].user_id # Val(resp.user) =>
                  \A k \in 1..Len(resp.body) : resp.body[k].id # tasks[i]._id

C3_Witness ==
    /\ resp.op = "get_tasks"
    /\ Len(resp.body) >= 1
    /\ Val(resp.args).search = Some(<<"d", "o", "c">>)
    /\ \E i \in 1..Len(tasks) :
          /\ tasks[i].user_id # Val(resp.user)
          /\ RegexSearch(<<"d", "o", "c">>, tasks[i].title)

\* C4: the user store never holds two records with the same email, also
\* when two registrations of that email both pass the pre-check
C4_EmailUnique ==
    \A i, j \in 1..Len(users) : users[i].email = users[j].email => i = j

\* C5: Register with an email already stored answers 400 "Email already
\* registered", inserts nothing, and stored user records never change
RegisterCalled(s, u) ==
    /\ reqs[s].op = "idle"
    /\ \/ resp'.op = "register" /\ resp'.args = Some(UserDoc(u, now))
       \/ reqs'[s].op = "register" /\ reqs'[s].doc = Some(UserDoc(u, now))

C5_DuplicateRegisterRejected ==
    [][/\ \A u \in UserCreates :
             (RegisterCalled(1, u) /\ FindOne(SelectSeq(users, LAMBDA x : x.email = u.email)) # None)
             => /\ resp'.status = 400
                /\ resp'.detail = "Email already registered"
                /\ resp'.body = None
                /\ reqs'[1] = Idle
                /\ users' = users
       /\ Len(users') >= Len(users)
       /\ \A i \in 1..Len(users) : users'[i] = users[i]]_vars

C5_Witness ==
    /\ resp.op = "register"
    /\ resp.status = 400
    /\ \E i \in 1..Len(users) : Val(resp.args).email = users[i].email

\* C6: once its owner has deleted a task, Get Task and Delete Task by that
\* user on that identifier answer 404
C6_DeletedThenNotFound ==
    [][(/\ resp'.op \in {"get_task", "delete_task"}
        /\ resp'.user # None
        /\ <<resp'.task_id, Val(resp'.user)>> \in deleted)
       => resp'.status = 404]_vars

\* C7: Update Task with a well-formed identifier matching no task of the
\* current user answers 404 and writes nothing
C7_UpdateNoMatchIs404 ==
    [][\A s \in Slots :
          (/\ UpdateWrites(s)
           /\ ObjectIdValid(reqs[s].task_id)
           /\ MatchedCount(reqs[s].task_id, Uid(s)) = 0)
          => (resp'.status = 404 /\ tasks' = tasks)]_vars

\* C8: Get, Update and Delete Task with a malformed identifier answer 400
\* and leave the task store unchanged
C8_MalformedIdIs400 ==
    [][\A s \in Slots :
          (/\ Answers(s, {"get_task", "update_task", "delete_task"})
           /\ ~ObjectIdValid(resp'.task_id))
          => (resp'.status = 400 /\ resp'.body = None /\ tasks' = tasks)]_vars

C8_Witness ==
    /\ resp.op = "delete_task"
    /\ resp.task_id = InvalidTaskId
    /\ resp.status = 400
    /\ Len(tasks) >= 1

\* C9: at the gate a missing credential is answered 403 and an invalid or
\* expired token 401; in both cases no handler starts, nothing is read out
\* and no record changes; a handler starts only on a token that decodes
C9_GateRejects ==
    [][GateRan(1) =>
          /\ Presented(1) = None => (~Accepted(1) /\ resp'.status = 403)
          /\ (Presented(1) # None /\ JwtDecode(Val(Presented(1)), now) # "ok")
                => (~Accepted(1) /\ resp'.status = 401)
          /\ ~Accepted(1) =>
                /\ resp'.body = None
                /\ reqs' = reqs
                /\ users' = users
                /\ tasks' = tasks]_vars

C9_Witness ==
    /\ resp.op = "protected"
    /\ resp.status = 401
    /\ resp.cred # None
    /\ JwtDecode(Val(resp.cred), now) = "ExpiredSignatureError"
    /\ Len(tasks) >= 1

\* C10 as stated: a token issued at T is accepted at every time strictly
\* before T + ttl and rejected as invalid at every time after T + ttl
C10_ValidStrictlyBeforeExpiry ==
    [][\A i \in 1..Len(users), T \in FineClockPoints :
          (/\ GateRan(1)
           /\ users[i].created_at <= T /\ T <= now
           /\ Presented(1) = Some(IssuedAt(users[i], T)))
          => /\ now < T + TtlTicks => Accepted(1)
             /\ now > T + TtlTicks => RejectedInvalid]_vars

\* C10 amended: the expiry is the whole second E = floor(T) + ttl; the
\* token is accepted exactly at the times before E, so at every time up to
\* one second before T + ttl (T + 29 min included), and rejected as
\* invalid at every time from T + ttl on (T + 31 min included)
C10_ValidUntilWholeSecondExpiry ==
    [][\A i \in 1..Len(users), T \in FineClockPoints :
          (/\ GateRan(1)
           /\ users[i].created_at <= T /\ T <= now
           /\ Presented(1) = Some(IssuedAt(users[i], T)))
          => /\ Accepted(1) <=> now < (T \div TicksPerSecond) * TicksPerSecond + TtlTicks
             /\ ~Accepted(1) => RejectedInvalid
             /\ now + TicksPerSecond <= T + TtlTicks => Accepted(1)
             /\ now >= T + TtlTicks => RejectedInvalid]_vars

C10_Witness ==
    /\ resp.op = "protected"
    /\ resp.status = 401
    /\ now = TtlTicks
    /\ \E i \in 1..Len(users) :
          users[i].created_at <= 1 /\ resp.cred = Some(IssuedAt(users[i], 1))

\* the step is register or login answering with a token
TokenReturned == resp'.op \in {"register", "login"} /\ resp'.status = 200

\* C11: a token returned by Register or Login names the user record just
\* stored or matched; presented before its expiry it resolves at the gate
\* to exactly that record (same identifier, email and name), whatever
\* happened in between; no step changes or removes a user record
C11_TokenResolvesToItsUser ==
    [][/\ TokenReturned =>
             \E i \in 1..Len(users') :
                /\ Val(resp'.body).access_token.sub = Some(users'[i]._id)
                /\ Val(resp'.body).user = UserView(users'[i])
                /\ \A j \in 1..Len(users') : users'[j]._id = users'[i]._id => j = i
       /\ \A i \in 1..Len(users), T \in ClockPoints :
             (/\ GateRan(1)
              /\ users[i].created_at <= T /\ T <= now
              /\ Presented(1) = Some(IssuedAt(users[i], T))
              /\ now < IssuedAt(users[i], T).exp * TicksPerSecond)
             => /\ Accepted(1)
                /\ reqs'[1].user = Some(users[i])
       /\ \A s \in Slots :
             (Running(s, "get_me") /\ resp'.op = "get_me")
             => /\ Val(resp'.body).id = Val(Val(reqs[s].sent).sub)
                /\ \E i \in 1..Len(users) : Val(resp'.body) = UserView(users[i])
       /\ Len(users') >= Len(users)
       /\ \A i \in 1..Len(users) : users'[i] = users[i]]_vars

C11_Witness ==
    /\ Len(users) = MaxUsers
    /\ deleted # {}
    /\ Len(tasks) >= 1
    /\ now > 0
    /\ resp.op = "get_me"
    /\ Val(resp.body) = UserView(users[2])

\* the step is login answering a request with this email and password
LoginCalled(email, password) ==
    resp'.op = "login"
    /\ resp'.args = Some([email |-> email, password |-> password])

\* the email is stored / the password is the one registered with it
Registered(email) == \E i \in 1..Len(users) : users[i].email = email
RightPassword(email, password) ==
    \E u \in UserCreates : u.email = email /\ u.password = password

\* C12 as stated: Login with an email that is not stored and Login with a
\* stored email and a wrong password get one and the same response, 401
\* "Invalid email or password" with no body, and leave the user store
\* unchanged
C12_LoginFailuresAlike ==
    [][\A email \in Emails, password \in LoginPasswords :
          (/\ LoginCalled(email, password)
           /\ ~Registered(email) \/ ~RightPassword(email, password))
          => /\ [resp' EXCEPT !.args = None]
                   = Response("login", 401, "Invalid email or password",
                              None, None, 0, None, None)
             /\ users' = users]_vars

\* the causes a token fails to decode for
DecodeFailures == {"DecodeError", "InvalidSignatureError", "ExpiredSignatureError"}

\* C13: a malformed token, a token with a bad signature and an expired
\* token get one and the same answer at the gate, 401 "Invalid token"
C13_DecodeFailuresAlike ==
    [][(/\ GateRan(1)
        /\ Presented(1) # None
        /\ JwtDecode(Val(Presented(1)), now) \in DecodeFailures)
       => /\ [resp' EXCEPT !.cred = None]
                = Response("protected", 401, "Invalid token",
                           None, None, 0, None, None)
          /\ \A c \in Credentials(FineClockPoints) :
                (c # None /\ JwtDecode(Val(c), now) \in DecodeFailures)
                => Gate(c, now) = GateFail(401, "Invalid token")]_vars

C13_Witness ==
    /\ resp.op = "protected"
    /\ resp.cred # None
    /\ JwtDecode(Val(resp.cred), now) = "ExpiredSignatureError"
    /\ \A f \in DecodeFailures :
          \E c \in Credentials(FineClockPoints) :
              c # None /\ JwtDecode(Val(c), now) = f

\* the step is the update_one of slot s matching a task
UpdateMatched(s) == UpdateWrites(s) /\ reqs'[s].pc = "reread"

\* the step is slot s building the update dict of an update
UpdateStamped(s) ==
    Running(s, "update_task") /\ reqs'[s].op = "update_task"

\* C14: in a matching Update Task by the owner exactly the supplied fields
\* take the supplied values, the other fields of title, description,
\* due_date and completed keep theirs, identifier, owner and creation
\* timestamp are unchanged, the update timestamp becomes the time the
\* request read when it built the update (also when nothing is supplied),
\* and no other task changes
C14_PartialUpdateFrame ==
    [][\A s \in Slots :
          /\ UpdateStamped(s) => Val(reqs'[s].doc).updated_at = Some(now)
          /\ UpdateMatched(s) =>
             LET u == Val(reqs[s].doc)
             IN  /\ Len(tasks') = Len(tasks)
                 /\ \A i \in 1..Len(tasks) :
                       LET old == tasks[i]
                           new == tasks'[i]
                       IN  IF old._id = reqs[s].task_id
                           THEN /\ old.user_id = Uid(s)
                                /\ new.title = IF u.title # None
                                               THEN Val(u.title) ELSE old.title
                                /\ new.description = IF u.description # None
                                                     THEN u.description
                                                     ELSE old.description
                                /\ new.due_date = IF u.due_date # None
                                                  THEN u.due_date ELSE old.due_date
                                /\ new.completed = IF u.completed # None
                                                   THEN Val(u.completed)
                                                   ELSE old.completed
                                /\ new._id = old._id
                                /\ new.user_id = old.user_id
                                /\ new.created_at = old.created_at
                                /\ new.updated_at = Val(u.updated_at)
                           ELSE new = old]_vars

\* only completed was supplied, to a task with a due date, next to a
\* second task
C14_Witness ==
    /\ reqs[1].op = "update_task" /\ reqs[1].pc = "reread"
    /\ reqs[1].doc = Some(UpdateData([NoUpdate EXCEPT !.completed = Some(TRUE)],
                                     now))
    /\ Len(tasks) = 2
    /\ \E i \in 1..Len(tasks) :
          /\ tasks[i]._id = reqs[1].task_id
          /\ tasks[i].due_date # None
          /\ tasks[i].completed
          /\ tasks[i].updated_at = now
          /\ tasks[i].created_at < now

\* the step is slot s reading the task back and answering the update
UpdateAnswered(s) ==
    reqs[s].op = "update_task" /\ reqs[s].pc = "reread" /\ reqs'[s] = Idle

\* C15: an Update Task whose write matched ends with a success response
\* carrying the task, in which every field this request supplied has the
\* value it supplied, however the steps of other updates and deletes of
\* the task fall between its write and its read
C15_UpdateAnswersOwnWrite ==
    [][\A s \in Slots :
          UpdateAnswered(s) =>
             LET u == Val(reqs[s].doc)
             IN  /\ resp'.status = 200
                 /\ resp'.body # None
                 /\ resp'.body # None =>
                       LET b == Val(resp'.body)
                       IN  /\ b.id = reqs[s].task_id
                           /\ u.title # None => b.title = Val(u.title)
                           /\ u.description # None => b.description = Val(u.description)
                           /\ u.due_date # None => b.due_date = u.due_date
                           /\ u.completed # None => b.completed = Val(u.completed)]_vars

\* the step is slot s creating a task
TaskCreated(s) ==
    reqs[s].op = "create_task" /\ reqs[s].pc = "insert" /\ resp'.op = "create_task"

\* C16: Create Task appends exactly one task, owned by the current user,
\* not completed, with creation and update timestamps equal to each other
\* and to the current time and an identifier no stored task has; it
\* answers with that record, and every other task is as it was
C16_CreateInsertsOne ==
    [][\A s \in Slots :
          TaskCreated(s) =>
             LET new == tasks'[Len(tasks')]
             IN  /\ Len(tasks') = Len(tasks) + 1
                 /\ \A i \in 1..Len(tasks) : tasks'[i] = tasks[i]
                 /\ \A i \in 1..Len(tasks) : tasks[i]._id # new._id
                 /\ new.user_id = Uid(s)
                 /\ new.completed = FALSE
                 /\ new.title = Val(resp'.args).title
                 /\ new.description = Val(resp'.args).description
                 /\ new.due_date = Val(resp'.args).due_date
                 /\ new.created_at = now
                 /\ new.updated_at = new.created_at
                 /\ resp'.status = 200
                 /\ resp'.body = Some(TaskView(new))]_vars

\* the last response is a list without filters
ListedUnfiltered ==
    /\ resp.op = "get_tasks"
    /\ Val(resp.args).completed = None
    /\ Val(resp.args).search = None

\* the stored tasks of the user the last response went to
OwnTasks == {i \in 1..Len(tasks) : tasks[i].user_id = Val(resp.user)}

InBody(i) == \E k \in 1..Len(resp.body) : resp.body[k].id = tasks[i]._id

\* C17 as stated: List Tasks without filters returns every stored task of
\* the authenticated user, however many tasks the user holds and whatever
\* the sort field and direction
C17_ListReturnsEveryOwnTask ==
    ListedUnfiltered => \A i \in OwnTasks : InBody(i)

\* C18 as stated: List Tasks with the completion filter c returns exactly the
\* current user's tasks whose completion flag is c: a task is in the
\* completed=false list and not in the completed=true list from its
\* creation until its owner updates it to completed=true, and the other
\* way round afterwards
C18_ListByCompletion ==
    (/\ resp.op = "get_tasks"
     /\ Val(resp.args).completed # None
     /\ Val(resp.args).search = None)
    => LET c == Val(Val(resp.args).completed)
       IN  /\ \A k \in 1..Len(resp.body) :
                 /\ resp.body[k].completed = c
                 /\ resp.body[k].user_id = Val(resp.user)
           /\ \A i \in 1..Len(tasks) :
                 InBody(i) <=> (tasks[i].user_id = Val(resp.user)
                                /\ tasks[i].completed = c)

\* the fields List Tasks sorts on
SortableFields == {"created_at", "updated_at", "due_date", "title"}

\* the records of r never step down (up = TRUE) or up (up = FALSE) on the
\* field from one to the next
Ordered(r, field, up) ==
    \A i, j \in 1..Len(r) :
        i < j => IF up THEN ~KeyLess(field, r[j], r[i])
                 ELSE ~KeyLess(field, r[i], r[j])

\* C19: the result of List Tasks is ordered on sort_by when it is one of
\* created_at, updated_at, due_date and title and on created_at for any
\* other value; descending when order is omitted or "desc", ascending
\* when order is "asc"
C19_ListOrdered ==
    resp.op = "get_tasks" =>
        LET sort_by == Val(resp.args).sort_by
            order == Val(resp.args).order
            field == IF sort_by \in SortableFields THEN sort_by ELSE "created_at"
        IN  /\ (order = None \/ order = Some("desc"))
                  => Ordered(resp.body, field, FALSE)
            /\ order = Some("asc") => Ordered(resp.body, field, TRUE)

\* two tasks listed on a sort_by outside the four fields with order
\* omitted: the later created comes first
C19_Witness ==
    /\ resp.op = "get_tasks"
    /\ Val(resp.args).sort_by = "priority"
    /\ Val(resp.args).order = None
    /\ Len(resp.body) = 2
    /\ resp.body[1].created_at > resp.body[2].created_at

\* s occurs in text as a run of consecutive characters, letter case apart
Contains(text, s) ==
    \E k \in 0..(Len(text) - Len(s)) :
        \A i \in 1..Len(s) : Lower(text[k + i]) = Lower(s[i])

\* C20: List Tasks with a non-empty search string s returns exactly the
\* current user's tasks, within the completion filter, whose title or
\* description contains s as a substring, letter case apart
C20_SearchIsSubstring ==
    (/\ resp.op = "get_tasks"
     /\ Val(resp.args).search # None
     /\ Val(resp.args).search # Some(<<>>))
    => LET s == Val(Val(resp.args).search)
           completed == Val(resp.args).completed
       IN  \A i \in 1..Len(tasks) :
              InBody(i) <=>
                 /\ tasks[i].user_id = Val(resp.user)
                 /\ completed # None => tasks[i].completed = Val(completed)
                 /\ \/ Contains(tasks[i].title, s)
                    \/ /\ tasks[i].description # None
                       /\ Contains(Val(tasks[i].description), s)

\* how many stored tasks user uid has, and how many with completion c
CountOwn(uid) == Cardinality({i \in 1..Len(tasks) : tasks[i].user_id = uid})
CountOwnCompleted(uid, c) ==
    Cardinality({i \in 1..Len(tasks) :
                    tasks[i].user_id = uid /\ tasks[i].completed = c})

\* C21: with no task mutation alongside, Statistics answers with
\* total_tasks = the user's tasks, completed_tasks = those completed,
\* pending_tasks = those not completed, so pending + completed = total;
\* tasks of other users count nowhere
C21_StatsCounts ==
    resp.op = "get_task_stats" =>
        LET b == Val(resp.body)
            uid == Val(resp.user)
        IN  /\ b.total_tasks = CountOwn(uid)
            /\ b.completed_tasks = CountOwnCompleted(uid, TRUE)
            /\ b.pending_tasks = CountOwnCompleted(uid, FALSE)
            /\ b.pending_tasks + b.completed_tasks = b.total_tasks

C21_Witness ==
    /\ resp.op = "get_task_stats"
    /\ Val(resp.body).total_tasks = 1
    /\ Val(resp.body).completed_tasks = 1
    /\ \E i \in 1..Len(tasks) : tasks[i].user_id # Val(resp.user)

\* the day of a Statistics response starts at the midnight before the
\* wall-clock time the handler read
Midnight == Val(resp.args).local_now - (Val(resp.args).local_now % DayTicks)

\* the zone of the server that sent a Statistics response (the clock
\* stands still while the handler runs)
ServerUtcOffset == Val(resp.args).local_now - now

\* the due date of stored task i on the server's wall clock: the reading
\* its client wrote when it wrote no UTC offset, else the instant it wrote
DueOnServerClock(i) ==
    IF ClientUtcOffset(tasks[i].user_id) = None THEN Val(tasks[i].due_date)
    ELSE Val(tasks[i].due_date) + ServerUtcOffset

\* the not-completed tasks of user uid with a due date
DueOpen(uid) ==
    {i \in 1..Len(tasks) :
        /\ tasks[i].user_id = uid
        /\ ~tasks[i].completed
        /\ tasks[i].due_date # None}

\* those due before instant to / from instant from up to, not including, to
DueBefore(uid, to) == {i \in DueOpen(uid) : DueOnServerClock(i) < to}
DueWithin(uid, from, to) ==
    {i \in DueOpen(uid) : from <= DueOnServerClock(i) /\ DueOnServerClock(i) < to}

\* C22 as stated: with no task mutation alongside, overdue is the number of
\* the user's not-completed tasks due before the start of today, due_today
\* the number of those due from the start of today up to the start of
\* tomorrow; completed tasks and tasks without a due date are in neither, no
\* task is in both, so due_today + overdue <= pending_tasks, and a
\* not-completed task due yesterday is in overdue and not in due_today
C22_DueTodayAndOverdue ==
    resp.op = "get_task_stats" =>
        LET b == Val(resp.body)
            uid == Val(resp.user)
        IN  /\ b.overdue = Cardinality(DueBefore(uid, Midnight))
            /\ b.due_today =
                   Cardinality(DueWithin(uid, Midnight, Midnight + DayTicks))
            /\ b.due_today + b.overdue <= b.pending_tasks

\* C26 as stated: every Statistics response has completed_tasks <=
\* total_tasks and pending_tasks >= 0, also when Create, Update and Delete
\* of the same user fall between the count queries
C26_CountsConsistentUnderRace ==
    resp.op = "get_task_stats" =>
        /\ Val(resp.body).completed_tasks <= Val(resp.body).total_tasks
        /\ Val(resp.body).pending_tasks >= 0

\* C26: every Statistics response, also with Create, Update and Delete of
\* the same user between the counts, has pending_tasks = total_tasks -
\* completed_tasks and completed_tasks at most the number of tasks the user
\* had when the second count ran; so completed_tasks <= total_tasks and
\* pending_tasks >= 0 when the user had as many tasks at the second count
\* as the first count found
C26_CountsOfTheirOwnInstant ==
    resp.op = "get_task_stats" =>
        LET b == Val(resp.body)
            l == Val(resp.args)
        IN  /\ b.pending_tasks = b.total_tasks - b.completed_tasks
            /\ b.completed_tasks <= l.own_at_completed
            /\ l.own_at_completed = b.total_tasks =>
                   b.completed_tasks <= b.total_tasks /\ b.pending_tasks >= 0

\* a response with as many tasks at both counts, one completed, sent while
\* an update of the other request is between its write and its read
C26_Witness ==
    /\ resp.op = "get_task_stats"
    /\ Val(resp.body).completed_tasks = 1
    /\ Val(resp.body).total_tasks = 2
    /\ Val(resp.args).own_at_completed = 2
    /\ reqs[2].op = "update_task" /\ reqs[2].pc = "reread"

\* a login that found its user and so called the hasher, and its password
LoginVerified ==
    resp.op = "login" /\ FindUserByEmail(Val(resp.args).email) # None
LoginPassword == Val(resp.args).password

\* C25 as stated: a password of more than 72 bytes in UTF-8, multi-byte
\* characters included, reaches the hash and verify primitive as a value of
\* at most 72 bytes, and a password of at most 72 bytes reaches it unchanged
C25_HandedAtMost72Bytes ==
    LoginVerified =>
        /\ Len(Utf8Encode(Truncate(LoginPassword))) <= BcryptLimit
        /\ Len(Utf8Encode(LoginPassword)) <= BcryptLimit =>
               Truncate(LoginPassword) = LoginPassword

\* the password an account was registered with
RegisteredPassword(email) ==
    (CHOOSE u \in PasswordCreates : u.email = email).password

\* C23 as stated: whatever the password p, also over 72 bytes in UTF-8,
\* Register with p goes through and Login with the same email and p
\* succeeds, and Login with a password whose truncation differs from that of
\* p fails with 401 "Invalid email or password"; hashing and verifying
\* truncate with the same function
C23_RegisterThenLogin ==
    /\ resp.op = "register" => resp.status # 500
    /\ LoginVerified =>
         LET p == RegisteredPassword(Val(resp.args).email)
         IN  /\ LoginPassword = p => resp.status = 200
             /\ Truncate(LoginPassword) # Truncate(p) =>
                    /\ resp.status = 401
                    /\ resp.detail = "Invalid email or password"

\* C24 as stated: for every user id and every lifetime ttl >= 0 given to the
\* token issuer, ttl = 0 included, the token carries that user id as its
\* subject and the time of issue plus ttl as its expiry (in the whole
\* seconds a token counts its expiry in)
C24_TokenCarriesSubAndExpiry ==
    resp.op = "create_access_token" =>
        LET token == Val(resp.body)
            a == Val(resp.args)
        IN  /\ token.sub = resp.user
            /\ token.exp = (a.issued + a.expires_delta) \div TicksPerSecond

====
